---- MODULE Spec2Model ----
(***************************************************************************)
(* Model of the two maintenance scripts of the repository:                 *)
(*   .github/scripts/syncbranches.py  (GitRepo, cherry_pick_commits)       *)
(*   .github/scripts/trymerge.py      (GitHubPR, merge_into, main)         *)
(*                                                                         *)
(* A branch is modelled by its rev-list since the merge base, newest       *)
(* commit first, exactly the list `git rev-list base..tip` prints.  A      *)
(* commit is a number; patch[c] is the `git patch-id --stable` value of    *)
(* commit c.  The hosting service and the working tree are the             *)
(* environment: their answers are drawn when the call is made.             *)
(***************************************************************************)
EXTENDS Integers, Sequences, FiniteSets, TLC

\* ----------------------------------------------------------------- bounds
\* Longest rev-list of a branch in the initial repository.
MaxLen == 3
\* Number of distinct patch fingerprints in the initial repository.
NumFp == 3
\* Number of script invocations of syncbranches.py that are followed.
MaxRuns == 2
\* Largest pull request number.
MaxPR == 3
\* Largest changedFiles / file node count the hosting service reports.
MaxFiles == 3

VARIABLES
    prog,        \* which script runs: "sync" (syncbranches.py) or "merge" (trymerge.py)
    branches,    \* [main, sync, orig]: each ref's rev-list since the merge base, newest first
    patch,       \* patch[c]: the patch-id of commit c (a sequence indexed by commit)
    hasBase,     \* whether sync and main have a common ancestor
    head,        \* the branch that is checked out
    pc,          \* position of the running script
    runs,        \* number of invocations of syncbranches.py started
    pre,         \* the repository when the current invocation started
    orig_branch, \* cherry_pick_commits: local orig_branch
    from_commits,\* cherry_pick_commits: local from_commits
    to_commits,  \* cherry_pick_commits: local to_commits
    todo,        \* the commits still to be replayed, in replay order
    picks,       \* the commits handed to `git cherry-pick` in this invocation, in call order
    out,         \* what the invocation printed
    err,         \* the message of the exception raised, "" when none
    dry_run,     \* trymerge.py: args.dry_run
    pr_num,      \* trymerge.py: args.pr_num
    head_ref,    \* the head ref name of the requested pull request
    info,        \* GitHubPR.info of the requested PR: <<>> until fetched, then <<record>>
    rev_list,    \* merge_ghstack_into: local rev_list
    log,         \* merge_ghstack_into: one entry per loop iteration entered
    calls,       \* number of calls issued, per kind of external effect
    notes,       \* the notifications delivered: posted comments and dry-run prints
    exitCode     \* <<>> while the script runs, <<code>> once the process has exited

vars == <<prog, branches, patch, hasBase, head, pc, runs, pre, orig_branch,
          from_commits, to_commits, todo, picks, out, err, dry_run, pr_num,
          head_ref, info, rev_list, log, calls, notes, exitCode>>

syncVars == <<runs, orig_branch, from_commits, to_commits, out>>
mergeVars == <<dry_run, pr_num, head_ref, info, rev_list, log, notes>>

\* ---------------------------------------------------------------- helpers
\* A loop over the list itself, first element first.
NotReversed(s) == s

\* Python's reversed(): the same elements, last first.
Reverse(s) == [i \in 1..Len(s) |-> s[Len(s) + 1 - i]]

\* list.remove(x): drops the first occurrence of x.
Remove(s, x) ==
    LET at == CHOOSE i \in 1..Len(s) : s[i] = x /\ \A j \in 1..(i - 1) : s[j] # x
    IN  [i \in 1..(Len(s) - 1) |-> IF i < at THEN s[i] ELSE s[i + 1]]

\* for commit in xs: s.remove(commit)
RECURSIVE RemoveEach(_, _)
RemoveEach(s, xs) ==
    IF xs = <<>> THEN s ELSE RemoveEach(Remove(s, Head(xs)), Tail(xs))

\* GitRepo.patch_id of a list of commits: one (patch-id, commit) pair per
\* commit, in the order of the list; [] for the empty list.
patch_id(ref) == [i \in 1..Len(ref) |-> <<patch[ref[i]], ref[i]>>]

\* A dict comprehension that keeps one value per key (the last one).
fuzzy_list_to_dict_last(items) ==
    [key \in {items[i][1] : i \in 1..Len(items)} |->
        LET last == CHOOSE i \in 1..Len(items) :
                        items[i][1] = key /\ \A j \in (i + 1)..Len(items) : items[j][1] # key
        IN  <<items[last][2]>>]

\* fuzzy_list_to_dict: key -> the values of that key, in the order of the list.
fuzzy_list_to_dict(items) ==
    [key \in {items[i][1] : i \in 1..Len(items)} |->
        LET sel == SelectSeq(items, LAMBDA p : p[1] = key)
        IN  [i \in 1..Len(sel) |-> sel[i][2]]]

MismatchMsg == "Number of commits with identical patch_ids do not match"
NoBaseMsg == "merge-base: no common ancestor"

Raised(msg) == [ok |-> FALSE, err |-> msg, from |-> <<>>, to |-> <<>>]

\* The cancellation loop without the count check.
RECURSIVE cancel_loop_unchecked(_, _, _, _, _)
cancel_loop_unchecked(ids, from_ids, to_ids, fc, tc) ==
    IF ids = {} THEN [ok |-> TRUE, err |-> "", from |-> fc, to |-> tc]
    ELSE LET p == CHOOSE p \in ids : TRUE
             n == IF Len(from_ids[p]) < Len(to_ids[p]) THEN Len(from_ids[p]) ELSE Len(to_ids[p])
         IN  cancel_loop_unchecked(ids \ {p}, from_ids, to_ids,
                                   RemoveEach(fc, SubSeq(from_ids[p], 1, n)),
                                   RemoveEach(tc, SubSeq(to_ids[p], 1, n)))

\* The loop of compute_branch_diffs over the patch-ids both sides have: a
\* count mismatch raises, otherwise every commit of the patch-id is removed
\* from both lists.  The set is walked in an arbitrary order.
RECURSIVE cancel_loop(_, _, _, _, _)
cancel_loop(ids, from_ids, to_ids, fc, tc) ==
    IF ids = {} THEN [ok |-> TRUE, err |-> "", from |-> fc, to |-> tc]
    ELSE LET p == CHOOSE p \in ids : TRUE
         IN  IF Len(from_ids[p]) # Len(to_ids[p])
             THEN Raised(MismatchMsg)
             ELSE cancel_loop(ids \ {p}, from_ids, to_ids,
                              RemoveEach(fc, from_ids[p]), RemoveEach(tc, to_ids[p]))

\* compute_branch_diffs on the two rev-lists since the merge base.
branch_diffs(fc, tc) ==
    LET from_ids == fuzzy_list_to_dict(patch_id(fc))
        to_ids == fuzzy_list_to_dict(patch_id(tc))
    IN  cancel_loop(DOMAIN from_ids \cap DOMAIN to_ids, from_ids, to_ids, fc, tc)

\* GitRepo.compute_branch_diffs: `git merge-base` fails when the branches
\* have no common ancestor.
compute_branch_diffs(from_branch, to_branch) ==
    IF ~hasBase THEN Raised(NoBaseMsg)
    ELSE branch_diffs(branches[from_branch], branches[to_branch])

\* GitRepo.cherry_pick on the checked-out branch: a new commit with the
\* patch of ref becomes the tip.
CherryPicked(ref) ==
    /\ patch' = Append(patch, patch[ref])
    /\ branches' = [branches EXCEPT ![head] = <<Len(patch) + 1>> \o @]

NoCalls == [push |-> 0, post |-> 0, print |-> 0, checkout |-> 0, squash |-> 0,
            commit |-> 0, amend |-> 0, fetch |-> 0]

Snapshot == [branches |-> branches, head |-> head]

\* ----------------------------------------------------------- initial state
\* Patch-ids are compared for equality only, so the initial assignment is
\* taken up to renaming: a new fingerprint is the smallest unused number.
Canonical(p) ==
    \A i \in 1..Len(p) :
        \/ p[i] = 1
        \/ \E j \in 1..(i - 1) : p[j] >= p[i] - 1

Upto(a, n) == [i \in 1..n |-> a + i]

InitSync ==
    /\ prog = "sync"
    /\ \E nf \in 0..MaxLen, nt \in 0..MaxLen :
          /\ branches = [sync |-> Upto(0, nf), main |-> Upto(nf, nt), orig |-> <<>>]
          /\ patch \in {p \in [1..(nf + nt) -> 1..NumFp] : Canonical(p)}
    /\ hasBase \in BOOLEAN
    /\ head \in {"main", "sync"}
    /\ pc = "idle"
    /\ dry_run = FALSE /\ pr_num = 0 /\ head_ref = "" /\ exitCode = <<>>

\* trymerge.py never reads a patch-id.  The commits of the orig ref carry
\* pairwise different patches, and main is either at the merge base or holds
\* one commit, which may carry the patch of a commit of the orig ref.
InitMerge ==
    /\ prog = "merge"
    /\ head_ref \in {"gh/user/1/head", "feature"}
    /\ \E n \in 0..MaxLen, m \in 0..1 :
          /\ head_ref = "feature" => n = 0
          /\ branches = [sync |-> <<>>, main |-> Upto(n, m), orig |-> Upto(0, n)]
          /\ \E f \in 1..(n + 1) : patch = [i \in 1..(n + m) |-> IF i <= n THEN i ELSE f]
    /\ hasBase = TRUE
    /\ head \in {"main", "sync"}
    /\ pc = "m_start"
    /\ dry_run \in BOOLEAN
    /\ pr_num \in 1..MaxPR
    /\ exitCode = <<>>

Init ==
    /\ InitSync \/ InitMerge
    /\ runs = 0
    /\ pre = Snapshot
    /\ orig_branch = "" /\ from_commits = <<>> /\ to_commits = <<>>
    /\ todo = <<>> /\ picks = <<>> /\ out = <<>> /\ err = ""
    /\ info = <<>> /\ rev_list = <<>> /\ log = <<>>
    /\ calls = NoCalls /\ notes = <<>>

\* ------------------------------------------------------ syncbranches.py
\* The script is started (again): __main__ up to the call of
\* compute_branch_diffs inside cherry_pick_commits (lines 105-109, 89-91).
SyncBegin ==
    /\ prog = "sync" /\ pc \in {"idle", "done", "failed"} /\ runs < MaxRuns
    /\ runs' = runs + 1
    /\ pre' = Snapshot
    /\ orig_branch' = head
    /\ head' = "main"
    /\ calls' = [NoCalls EXCEPT !.checkout = 1]
    /\ picks' = <<>> /\ out' = <<>> /\ todo' = <<>>
    /\ LET r == compute_branch_diffs("sync", "main")
       IN  IF r.ok
           THEN /\ from_commits' = r.from /\ to_commits' = r.to
                /\ err' = "" /\ pc' = "diffed" /\ exitCode' = <<>>
           ELSE /\ from_commits' = <<>> /\ to_commits' = <<>>
                /\ err' = r.err /\ pc' = "failed" /\ exitCode' = <<1>>
    /\ UNCHANGED <<prog, branches, patch, hasBase>>
    /\ UNCHANGED mergeVars

\* cherry_pick_commits that returns early without checking out orig_branch.
SyncDiffedNoRestore ==
    /\ prog = "sync" /\ pc = "diffed"
    /\ IF Len(from_commits) = 0
       THEN /\ out' = Append(out, "Nothing to do")
            /\ pc' = "returned"
            /\ UNCHANGED <<todo, head, calls>>
       ELSE /\ todo' = Reverse(from_commits)
            /\ pc' = "picking"
            /\ UNCHANGED <<out, head, calls>>
    /\ UNCHANGED <<prog, branches, patch, hasBase, runs, pre, orig_branch,
                   from_commits, to_commits, picks, err, exitCode>>
    /\ UNCHANGED mergeVars

\* cherry_pick_commits after the diff (lines 92-96): nothing to do, or the
\* replay list is set up, oldest commit first.
SyncDiffed ==
    /\ prog = "sync" /\ pc = "diffed"
    /\ IF Len(from_commits) = 0
       THEN /\ out' = Append(out, "Nothing to do")
            /\ head' = orig_branch
            /\ calls' = [calls EXCEPT !.checkout = @ + 1]
            /\ pc' = "returned"
            /\ todo' = todo
       ELSE /\ todo' = Reverse(from_commits)
            /\ pc' = "picking"
            /\ UNCHANGED <<out, head, calls>>
    /\ UNCHANGED <<prog, branches, patch, hasBase, runs, pre, orig_branch,
                   from_commits, to_commits, picks, err, exitCode>>
    /\ UNCHANGED mergeVars

\* One iteration of the replay loop (lines 96-97).  `git cherry-pick` either
\* creates the commit or stops on a conflict, and then the script dies with
\* the target branch still checked out.
SyncPick ==
    /\ prog = "sync" /\ pc = "picking" /\ todo # <<>>
    /\ picks' = Append(picks, Head(todo))
    /\ \E applied \in BOOLEAN :
          IF applied
          THEN /\ CherryPicked(Head(todo))
               /\ todo' = Tail(todo)
               /\ UNCHANGED <<pc, err, exitCode>>
          ELSE /\ pc' = "failed" /\ err' = "cherry-pick failed" /\ exitCode' = <<1>>
               /\ UNCHANGED <<branches, patch, todo>>
    /\ UNCHANGED <<prog, hasBase, head, runs, pre, orig_branch, from_commits,
                   to_commits, out, calls>>
    /\ UNCHANGED mergeVars

\* The end of cherry_pick_commits after the loop (line 98).
SyncEnd ==
    /\ prog = "sync" /\ pc = "picking" /\ todo = <<>>
    /\ head' = orig_branch
    /\ calls' = [calls EXCEPT !.checkout = @ + 1]
    /\ pc' = "returned"
    /\ UNCHANGED <<prog, branches, patch, hasBase, runs, pre, orig_branch,
                   from_commits, to_commits, todo, picks, out, err, exitCode>>
    /\ UNCHANGED mergeVars

\* repo.push(default_branch) of __main__ (line 110): accepted or rejected.
SyncPush ==
    /\ prog = "sync" /\ pc = "returned"
    /\ calls' = [calls EXCEPT !.push = @ + 1]
    /\ \E accepted \in BOOLEAN :
          IF accepted
          THEN pc' = "done" /\ err' = "" /\ exitCode' = <<0>>
          ELSE pc' = "failed" /\ err' = "push rejected" /\ exitCode' = <<1>>
    /\ UNCHANGED <<prog, branches, patch, hasBase, head, runs, pre, orig_branch,
                   from_commits, to_commits, todo, picks, out>>
    /\ UNCHANGED mergeVars

SyncNext == SyncBegin \/ SyncDiffed \/ SyncPick \/ SyncEnd \/ SyncPush

\* ------------------------------------------------------------ trymerge.py
\* The fields of a pull request's metadata that the script reads.  files is
\* the number of file nodes the query returned; reviewsOk: the review nodes
\* are as many as latestReviews.totalCount; authorOk: get_author finds the
\* author among the commit nodes.  The two file counts are compared for
\* equality only, so two adjacent values are drawn.
FileCounts == (MaxFiles - 1)..MaxFiles

PRInfos == [closed : BOOLEAN, isCrossRepository : BOOLEAN,
            changedFiles : FileCounts, files : FileCounts,
            reviewsOk : BOOLEAN, authorOk : BOOLEAN]

is_closed(i) == i.closed

is_cross_repo(i) == i.isCrossRepository

\* RE_GHSTACK_HEAD_REF.match(head_ref)
is_ghstack_pr == head_ref = "gh/user/1/head"

FileMismatchMsg == "Changed file count mismatch"

\* A get_changed_files that returns whatever nodes it was given.
get_changed_files_unchecked(i) == ""

\* GitHubPR.get_changed_files: the message of the exception raised, "" when
\* the list is returned.
get_changed_files(i) ==
    IF i.files # i.changedFiles THEN FileMismatchMsg ELSE ""

\* check_if_should_be_merged: the first exception raised by its three reads.
check_if_should_be_merged(i) ==
    IF get_changed_files(i) # "" THEN get_changed_files(i)
    ELSE IF ~i.reviewsOk THEN "Can't fetch all PR reviews"
    ELSE IF ~i.authorOk THEN "KeyError: author"
    ELSE ""

\* gh_post_comment: printed in a dry run, else posted to the hosting
\* service, where the request either is delivered or raises.
gh_post_comment(comment, delivered) ==
    IF dry_run
    THEN /\ calls' = [calls EXCEPT !.print = @ + 1]
         /\ notes' = Append(notes, [text |-> comment, via |-> "print"])
    ELSE /\ calls' = [calls EXCEPT !.post = @ + 1]
         /\ notes' = IF delivered
                     THEN Append(notes, [text |-> comment, via |-> "post"])
                     ELSE notes

\* The outcomes of a comment request: a dry run cannot fail.
Deliveries == IF dry_run THEN {TRUE} ELSE BOOLEAN

\* The process ends: by sys.exit(code), by returning from main (0), or by an
\* exception nothing catches (1).
Exit(code) == pc' = "exited" /\ exitCode' = <<code>>

\* main, lines 281-285: the metadata of the requested PR is fetched, outside
\* the try block.
MainFetch ==
    /\ prog = "merge" /\ pc = "m_start"
    /\ calls' = [calls EXCEPT !.fetch = @ + 1]
    /\ \/ /\ \E i \in PRInfos : info' = <<i>>
          /\ pc' = "m_guard"
          /\ UNCHANGED <<err, exitCode>>
       \/ /\ err' = "HTTPError"
          /\ Exit(1)
          /\ UNCHANGED info
    /\ UNCHANGED <<prog, branches, patch, hasBase, head, runs, pre, orig_branch,
                   from_commits, to_commits, todo, picks, out, dry_run, pr_num,
                   head_ref, rev_list, log, notes>>

\* main with the closed-PR check left out.
MainGuardNoClosedCheck ==
    /\ prog = "merge" /\ pc = "m_guard"
    /\ IF is_cross_repo(info[1])
       THEN \E delivered \in Deliveries :
               /\ gh_post_comment("Cross-repo merges are not supported at the moment", delivered)
               /\ IF delivered THEN Exit(-1) /\ err' = err
                               ELSE Exit(1) /\ err' = "HTTPError"
       ELSE /\ pc' = "m_validate"
            /\ UNCHANGED <<calls, notes, err, exitCode>>
    /\ UNCHANGED <<prog, branches, patch, hasBase, head, runs, pre, orig_branch,
                   from_commits, to_commits, todo, picks, out, dry_run, pr_num,
                   head_ref, info, rev_list, log>>

\* main, lines 286-292: a closed or cross-repository PR is rejected with a
\* comment and sys.exit(-1).
MainGuard ==
    /\ prog = "merge" /\ pc = "m_guard"
    /\ IF is_closed(info[1])
       THEN \E delivered \in Deliveries :
               /\ gh_post_comment("Can't merge closed PR", delivered)
               /\ IF delivered THEN Exit(-1) /\ err' = err
                               ELSE Exit(1) /\ err' = "HTTPError"
       ELSE IF is_cross_repo(info[1])
       THEN \E delivered \in Deliveries :
               /\ gh_post_comment("Cross-repo merges are not supported at the moment", delivered)
               /\ IF delivered THEN Exit(-1) /\ err' = err
                               ELSE Exit(1) /\ err' = "HTTPError"
       ELSE /\ pc' = "m_validate"
            /\ UNCHANGED <<calls, notes, err, exitCode>>
    /\ UNCHANGED <<prog, branches, patch, hasBase, head, runs, pre, orig_branch,
                   from_commits, to_commits, todo, picks, out, dry_run, pr_num,
                   head_ref, info, rev_list, log>>

\* merge_into, line 258: the requested PR is validated first.
MergeValidate ==
    /\ prog = "merge" /\ pc = "m_validate"
    /\ LET e == check_if_should_be_merged(info[1])
       IN  IF e = "" THEN pc' = "m_checkout" /\ err' = err
                     ELSE pc' = "m_except" /\ err' = e
    /\ UNCHANGED <<prog, branches, patch, hasBase, head, runs, pre, orig_branch,
                   from_commits, to_commits, todo, picks, out, dry_run, pr_num,
                   head_ref, info, rev_list, log, calls, notes, exitCode>>

\* merge_into, lines 259-261: the default branch is checked out unless it
\* already is, and the path is chosen.
MergeCheckout ==
    /\ prog = "merge" /\ pc = "m_checkout"
    /\ IF head # "main"
       THEN head' = "main" /\ calls' = [calls EXCEPT !.checkout = @ + 1]
       ELSE UNCHANGED <<head, calls>>
    /\ pc' = IF is_ghstack_pr THEN "m_stack" ELSE "m_squash"
    /\ UNCHANGED <<prog, branches, patch, hasBase, runs, pre, orig_branch,
                   from_commits, to_commits, todo, picks, out, err, dry_run, pr_num,
                   head_ref, info, rev_list, log, notes, exitCode>>

\* merge_into, lines 262-265: `git merge --squash` of the head ref, which
\* may stop on a conflict, then `git commit`: one new commit on main.
SquashApply ==
    /\ prog = "merge" /\ pc = "m_squash"
    /\ \/ /\ calls' = [calls EXCEPT !.squash = @ + 1, !.commit = @ + 1]
          /\ patch' = Append(patch, 0)
          /\ branches' = [branches EXCEPT ![head] = <<Len(patch) + 1>> \o @]
          /\ pc' = "m_push"
          /\ err' = err
       \/ /\ calls' = [calls EXCEPT !.squash = @ + 1]
          /\ pc' = "m_except" /\ err' = "merge --squash failed"
          /\ UNCHANGED <<branches, patch>>
    /\ UNCHANGED <<prog, hasBase, head, runs, pre, orig_branch,
                   from_commits, to_commits, todo, picks, out, dry_run, pr_num,
                   head_ref, info, rev_list, log, notes, exitCode>>

\* The list the Branch Diff Resolver would give: the commits of the orig ref
\* whose patch-id no commit of main carries.
orig_rev_list_exclusive == branch_diffs(branches.orig, branches.main).from

\* repo.revlist(f"{default_branch}..{orig_ref}") of merge_ghstack_into: the
\* commits reachable from the orig ref and not from main, newest first.
\* No patch-id is read.
orig_rev_list == branches.orig

\* merge_ghstack_into, lines 239-243: the list is read and the walk starts
\* at its oldest commit.
StackBegin ==
    /\ prog = "merge" /\ pc = "m_stack"
    /\ rev_list' = orig_rev_list
    /\ todo' = Reverse(orig_rev_list)
    /\ pc' = IF orig_rev_list = <<>> THEN "m_push" ELSE "m_walk"
    /\ UNCHANGED <<prog, branches, patch, hasBase, head, runs, pre, orig_branch,
                   from_commits, to_commits, picks, out, err, dry_run, pr_num,
                   head_ref, info, log, calls, notes, exitCode>>

\* One entry of the walk's log: the commit, whether its message names the
\* requested PR, whether the PR it names was found closed, whether that PR
\* was validated, and how the iteration ended.
Entry(rev, own, closed, validated, outcome) ==
    [rev |-> rev, own |-> own, closed |-> closed, validated |-> validated,
     outcome |-> outcome]

\* The iteration raises: the exception leaves merge_into.
StepRaises(e, msg) ==
    /\ log' = Append(log, e)
    /\ pc' = "m_except" /\ err' = msg
    /\ UNCHANGED <<branches, patch, todo, picks, out>>

\* The iteration ends and the loop goes on with the next commit.
StepDone(e) ==
    /\ log' = Append(log, e)
    /\ todo' = Tail(todo)
    /\ pc' = IF Tail(todo) = <<>> THEN "m_push" ELSE "m_walk"
    /\ err' = err

\* Lines 254-255: cherry-pick (which may stop on a conflict), then the
\* commit message is amended (repo.amend_commit_message, counted in
\* calls.amend; the patch of the commit stays).
StepPick(rev, own, closed, validated, fetches) ==
    /\ picks' = Append(picks, rev)
    /\ \/ /\ CherryPicked(rev)
          /\ calls' = [calls EXCEPT !.fetch = @ + fetches, !.amend = @ + 1]
          /\ StepDone(Entry(rev, own, closed, validated, "picked"))
          /\ out' = out
       \/ /\ calls' = [calls EXCEPT !.fetch = @ + fetches]
          /\ log' = Append(log, Entry(rev, own, closed, validated, "conflict"))
          /\ pc' = "m_except" /\ err' = "cherry-pick failed"
          /\ UNCHANGED <<branches, patch, todo, out>>

\* A closed PR of the chain is validated and replayed like an open one.
StepOtherReplaysClosed(rev) ==
    \/ /\ calls' = [calls EXCEPT !.fetch = @ + 1]
       /\ UNCHANGED picks
       /\ StepRaises(Entry(rev, FALSE, FALSE, FALSE, "raised"), "HTTPError")
    \/ \E i \in {j \in PRInfos : ~j.isCrossRepository} :
          IF check_if_should_be_merged(i) # ""
          THEN /\ calls' = [calls EXCEPT !.fetch = @ + 1]
               /\ UNCHANGED picks
               /\ StepRaises(Entry(rev, FALSE, is_closed(i), TRUE, "raised"),
                             check_if_should_be_merged(i))
          ELSE StepPick(rev, FALSE, is_closed(i), TRUE, 1)

\* Lines 249-253 for a commit of another PR: its metadata is fetched; a
\* closed PR is skipped with `continue`, an open one is validated.
StepOther(rev) ==
    \/ /\ calls' = [calls EXCEPT !.fetch = @ + 1]
       /\ UNCHANGED picks
       /\ StepRaises(Entry(rev, FALSE, FALSE, FALSE, "raised"), "HTTPError")
    \/ \E i \in {j \in PRInfos : ~j.isCrossRepository} :
          IF is_closed(i)
          THEN /\ calls' = [calls EXCEPT !.fetch = @ + 1]
               /\ out' = Append(out, "Skipping")
               /\ StepDone(Entry(rev, FALSE, TRUE, FALSE, "skipped"))
               /\ UNCHANGED <<branches, patch, picks>>
          ELSE IF check_if_should_be_merged(i) # ""
          THEN /\ calls' = [calls EXCEPT !.fetch = @ + 1]
               /\ UNCHANGED picks
               /\ StepRaises(Entry(rev, FALSE, FALSE, TRUE, "raised"),
                             check_if_should_be_merged(i))
          ELSE StepPick(rev, FALSE, FALSE, TRUE, 1)

\* What repo.commit_message(rev) can name in its "Pull Request resolved"
\* line: a PR number, or 0 when the message holds no such line.
commit_message_links == 0..MaxPR

\* merge_ghstack_into, lines 243-255: one iteration of the walk.  When the
\* commit message names no PR, m.group raises.
StackStep ==
    /\ prog = "merge" /\ pc = "m_walk" /\ todo # <<>>
    /\ \E link \in commit_message_links :
          IF link = 0
          THEN /\ StepRaises(Entry(Head(todo), FALSE, FALSE, FALSE, "raised"),
                             "AttributeError")
               /\ UNCHANGED <<calls, picks>>
          ELSE IF link = pr_num
          THEN StepPick(Head(todo), TRUE, FALSE, FALSE, 0)
          ELSE StepOther(Head(todo))
    /\ UNCHANGED <<prog, hasBase, head, runs, pre, orig_branch, from_commits,
                   to_commits, dry_run, pr_num, head_ref, info, rev_list, notes,
                   exitCode>>

\* A push that ignores --dry-run.
MergePushAlways ==
    /\ prog = "merge" /\ pc = "m_push"
    /\ calls' = [calls EXCEPT !.push = @ + 1]
    /\ Exit(0) /\ err' = err
    /\ UNCHANGED <<prog, branches, patch, hasBase, head, runs, pre, orig_branch,
                   from_commits, to_commits, todo, picks, out, dry_run, pr_num,
                   head_ref, info, rev_list, log, notes>>

\* merge_into, lines 269-270, and the return from main: the default branch
\* is pushed unless this is a dry run; the remote accepts or rejects it.
MergePush ==
    /\ prog = "merge" /\ pc = "m_push"
    /\ IF dry_run
       THEN Exit(0) /\ UNCHANGED <<calls, err>>
       ELSE /\ calls' = [calls EXCEPT !.push = @ + 1]
            /\ \/ Exit(0) /\ err' = err
               \/ pc' = "m_except" /\ err' = "push rejected" /\ exitCode' = exitCode
    /\ UNCHANGED <<prog, branches, patch, hasBase, head, runs, pre, orig_branch,
                   from_commits, to_commits, todo, picks, out, dry_run, pr_num,
                   head_ref, info, rev_list, log, notes>>

\* main, lines 296-297: the exception is caught and reported with a comment;
\* main then returns.  When the comment request itself raises, nothing
\* catches that.
MainCatch ==
    /\ prog = "merge" /\ pc = "m_except"
    /\ \E delivered \in Deliveries :
          /\ gh_post_comment("Merge failed due to", delivered)
          /\ IF delivered THEN Exit(0) ELSE Exit(1)
    /\ UNCHANGED <<prog, branches, patch, hasBase, head, runs, pre, orig_branch,
                   from_commits, to_commits, todo, picks, out, err, dry_run, pr_num,
                   head_ref, info, rev_list, log>>

MergeNext ==
    \/ MainFetch \/ MainGuard \/ MergeValidate \/ MergeCheckout \/ SquashApply
    \/ StackBegin \/ StackStep \/ MergePush \/ MainCatch

Next == SyncNext \/ MergeNext

Spec == Init /\ [][Next]_vars

\* ------------------------------------------------------------ properties
\* The patch-ids carried by the commits of a list.
Fps(cs) == {patch[cs[i]] : i \in 1..Len(cs)}

\* How many commits of the list carry the patch-id.
Count(f, cs) == Cardinality({i \in 1..Len(cs) : patch[cs[i]] = f})

\* Some patch-id occurs on both sides, with different counts.
HasCountMismatch(fc, tc) ==
    \E f \in Fps(fc) \cap Fps(tc) : Count(f, fc) # Count(f, tc)

\* The list without the commits whose patch-id occurs on the other side.
Exclusive(cs, other) == SelectSeq(cs, LAMBDA c : patch[c] \notin Fps(other))

\* The place of a commit in a list.
Pos(c, cs) == CHOOSE i \in 1..Len(cs) : cs[i] = c

Elems(cs) == {cs[i] : i \in 1..Len(cs)}

\* No git command that changes the working tree, a branch or the remote was
\* run by trymerge.py.
NoGitMutation ==
    /\ calls.checkout = 0 /\ calls.squash = 0 /\ calls.commit = 0
    /\ calls.amend = 0 /\ calls.push = 0
    /\ picks = <<>>
    /\ branches = pre.branches /\ head = pre.head

\* C1: when some patch-id occurs on both sides with different counts,
\* compute_branch_diffs raises the count-mismatch error and returns nothing:
\* the caller gets no lists, replays nothing and leaves the branches alone.
C1_MismatchRaises ==
    prog = "sync" =>
        /\ (hasBase /\ HasCountMismatch(branches.sync, branches.main))
               => compute_branch_diffs("sync", "main") = Raised(MismatchMsg)
        /\ (runs > 0 /\ hasBase /\ HasCountMismatch(pre.branches.sync, pre.branches.main))
               => /\ pc = "failed" /\ err = MismatchMsg
                  /\ from_commits = <<>> /\ to_commits = <<>>
                  /\ picks = <<>> /\ branches = pre.branches

\* C1 witness: a run failed on a patch-id carried by 2 commits on one side
\* and 3 on the other.
C1_Witness ==
    /\ prog = "sync" /\ pc = "failed" /\ err = MismatchMsg
    /\ \E f \in Fps(pre.branches.sync) :
          Count(f, pre.branches.sync) = 2 /\ Count(f, pre.branches.main) = 3

\* C2: when every patch-id present on both sides has the same count on both,
\* compute_branch_diffs returns each side's list without the commits whose
\* patch-id occurs on the other side, in rev-list order; histories with the
\* same patch-ids give two empty lists.
C2_ExclusiveLists ==
    prog = "sync" =>
        /\ (hasBase /\ ~HasCountMismatch(branches.sync, branches.main))
               => compute_branch_diffs("sync", "main") =
                      [ok |-> TRUE, err |-> "",
                       from |-> Exclusive(branches.sync, branches.main),
                       to |-> Exclusive(branches.main, branches.sync)]
        /\ pc = "diffed"
               => /\ from_commits = Exclusive(branches.sync, branches.main)
                  /\ to_commits = Exclusive(branches.main, branches.sync)
        /\ (pc = "diffed" /\ [i \in 1..Len(branches.sync) |-> patch[branches.sync[i]]]
                              = [i \in 1..Len(branches.main) |-> patch[branches.main[i]]])
               => from_commits = <<>> /\ to_commits = <<>>

\* C2 witness: sync holds X then Y, main holds a copy of Y then Z; the diff
\* is ([X], [Z]).
C2_Witness ==
    /\ prog = "sync" /\ pc = "diffed"
    /\ Len(branches.sync) = 2 /\ Len(branches.main) = 2
    /\ patch[branches.sync[1]] = patch[branches.main[2]]
    /\ from_commits = <<branches.sync[2]>>
    /\ to_commits = <<branches.main[1]>>

\* Every commit of sync is cancelled by main.
Converged(b) ==
    /\ hasBase
    /\ ~HasCountMismatch(b.sync, b.main)
    /\ Exclusive(b.sync, b.main) = <<>>

\* C3: a sync run started in a converged state replays nothing, prints
\* "Nothing to do", leaves both branches and the checked-out branch as they
\* were, in every run; and the state after a successful run is converged.
C3_ConvergedNoop ==
    (prog = "sync" /\ runs > 0) =>
        /\ Converged(pre.branches) =>
              /\ pc \in {"diffed", "returned", "done", "failed"}
              /\ pc = "failed" => err = "push rejected"
              /\ picks = <<>> /\ todo = <<>>
              /\ branches = pre.branches
              /\ pc # "diffed" => out = <<"Nothing to do">> /\ head = pre.head
        /\ pc = "done" => Converged(branches)

\* C3 witness: the second run found nothing to do after the first one had
\* replayed commits onto main.
C3_Witness ==
    /\ prog = "sync" /\ runs = 2 /\ pc = "done"
    /\ out = <<"Nothing to do">>
    /\ Len(branches.main) >= 2 /\ branches.main[1] > branches.main[2]
    /\ Converged(pre.branches)

\* C4: in a dry run nothing is pushed and no comment is posted, whether the
\* merge succeeds or fails; notifications are printed; the squash merge and
\* the commit of an ordinary PR are made locally on the default branch.
C4_DryRunNoRemote ==
    (prog = "merge" /\ dry_run) =>
        /\ calls.push = 0 /\ calls.post = 0
        /\ \A k \in 1..Len(notes) : notes[k].via = "print"
        /\ (pc = "exited" /\ info # <<>> /\ err # "") => Len(notes) = 1
        /\ (pc = "exited" /\ info # <<>> /\ err = "" /\ ~is_ghstack_pr
              /\ ~is_closed(info[1]) /\ ~is_cross_repo(info[1]))
               => /\ calls.squash = 1 /\ calls.commit = 1
                  /\ head = "main"
                  /\ Len(branches.main) = Len(pre.branches.main) + 1
                  /\ notes = <<>>

\* C4 witness: a dry run of an open, same-repository PR ended after the
\* local squash commit.
C4_Witness ==
    /\ prog = "merge" /\ dry_run /\ pc = "exited" /\ exitCode = <<0>>
    /\ ~is_closed(info[1]) /\ ~is_cross_repo(info[1])
    /\ calls.squash = 1 /\ calls.commit = 1

\* C5: every error raised during a merge request ends in exactly one
\* failure notification and a non-zero exit code.
C5_ErrorNotifiedNonZeroExit ==
    (prog = "merge" /\ pc = "exited" /\ err # "") =>
        /\ Len(notes) = 1
        /\ exitCode # <<0>>

\* C6 as claimed: with a chain of 3 entries whose middle PR is closed, the
\* middle PR is not validated again and all three commits are replayed,
\* oldest first.
C6_ClosedMiddleReplayed ==
    (/\ prog = "merge" /\ Len(rev_list) = 3 /\ Len(log) = 3
     /\ log[3].own /\ log[2].closed /\ ~log[1].own
     /\ log[1].outcome = "picked" /\ log[3].outcome = "picked")
        => /\ ~log[2].validated
           /\ picks = <<rev_list[3], rev_list[2], rev_list[1]>>

\* C6 amended: the iteration of a closed middle PR neither validates it nor
\* raises; it skips the commit, which is never cherry-picked, and the walk
\* goes on: the other two commits are replayed, oldest first.
C6_ClosedMiddleSkipped ==
    (prog = "merge" /\ Len(rev_list) = 3 /\ Len(log) >= 2 /\ log[2].closed) =>
        /\ ~log[2].validated
        /\ log[2].outcome = "skipped"
        /\ log[2].rev = rev_list[2]
        /\ rev_list[2] \notin Elems(picks)
        /\ (Len(log) = 3 /\ log[1].outcome = "picked" /\ log[3].outcome = "picked")
               => /\ picks = <<rev_list[3], rev_list[1]>>
                  /\ Len(branches.main) = Len(pre.branches.main) + 2
                  /\ patch[branches.main[1]] = patch[rev_list[1]]
                  /\ patch[branches.main[2]] = patch[rev_list[3]]

\* C6 witness: the top PR of a chain of 3 was merged while the middle PR was
\* closed.
C6_Witness ==
    /\ prog = "merge" /\ pc = "exited" /\ exitCode = <<0>>
    /\ Len(rev_list) = 3 /\ Len(log) = 3
    /\ log[3].own /\ log[2].closed /\ ~log[1].own
    /\ log[1].outcome = "picked" /\ log[3].outcome = "picked"

\* The comment main sends for a rejected PR.
RejectionText(i) ==
    IF is_closed(i) THEN "Can't merge closed PR"
    ELSE "Cross-repo merges are not supported at the moment"

C8_FileMismatchStops ==
    (prog = "merge" /\ info # <<>> /\ info[1].files # info[1].changedFiles) =>
        /\ get_changed_files(info[1]) = FileMismatchMsg
        /\ check_if_should_be_merged(info[1]) = FileMismatchMsg
        /\ pc \in {"m_guard", "m_validate", "m_except", "exited"}
        /\ NoGitMutation
        /\ pc = "m_except" => err = FileMismatchMsg
        /\ (~is_closed(info[1]) /\ ~is_cross_repo(info[1]) /\ pc = "exited")
               => /\ err = FileMismatchMsg
                  /\ calls.post + calls.print = 1

\* C8 witness: changedFiles = 3 with 2 file nodes ended the run with the
\* count-mismatch error.
C8_Witness ==
    /\ prog = "merge" /\ pc = "exited" /\ info # <<>>
    /\ info[1].changedFiles = 3 /\ info[1].files = 2
    /\ ~is_closed(info[1]) /\ ~is_cross_repo(info[1])
    /\ err = FileMismatchMsg
    /\ Len(notes) = 1

\* The commits of the log whose iteration reached `git cherry-pick`.
LogPicks ==
    LET sel == SelectSeq(log, LAMBDA e : e.outcome \in {"picked", "conflict"})
    IN  [k \in 1..Len(sel) |-> sel[k].rev]

ReplayList == IF prog = "sync" THEN from_commits ELSE rev_list

\* C10: both scripts hand commits to cherry-pick oldest first, the reverse
\* of the rev-list order, and no commit twice; the sync replays every commit
\* of its list in that order.
C10_OldestFirst ==
    /\ \A k \in 1..Len(picks) : picks[k] \in Elems(ReplayList)
    /\ \A j, k \in 1..Len(picks) :
          j < k => Pos(picks[j], ReplayList) > Pos(picks[k], ReplayList)
    /\ prog = "sync" =>
          \A k \in 1..Len(picks) : picks[k] = from_commits[Len(from_commits) + 1 - k]
    /\ (prog = "sync" /\ pc \in {"returned", "done"}) => Len(picks) = Len(from_commits)

\* C10 witness: a stacked merge replayed three commits.
C10_Witness ==
    /\ prog = "merge" /\ pc = "exited" /\ exitCode = <<0>>
    /\ Len(picks) = 3 /\ Len(rev_list) = 3

====
